---- MODULE Spec2Model ----
(***************************************************************************)
(* Rule compiler and verification engine of the policy checker.            *)
(*                                                                         *)
(*  - the condition parser of RuleCompiler (textual OR / AND / NOT         *)
(*    splitting, parentheses only around an atom),                         *)
(*  - the variable resolver VariableExtractorService._apply_default_values,*)
(*  - VerificationService.verify_scenario: mandatory gate, reload of the   *)
(*    stored policy, solver session, rule loop and aggregation.            *)
(*                                                                         *)
(* A condition string is modelled as the sequence of its blank-separated   *)
(* tokens; a solver formula as a tree of nodes; the solver as an           *)
(* exhaustive search over a finite universe of interpretations.            *)
(***************************************************************************)
EXTENDS Integers, Sequences, FiniteSets, TLC

(***************************************************************************)
(* Bounds of the model.                                                    *)
(***************************************************************************)
\* largest integer literal / integer fact value
MaxInt == 2
\* largest number of rules in a policy
MaxRules == 2
\* largest number of compile_policy calls in a run
MaxCalls == 3

(***************************************************************************)
(* Python values.  t is the Python type, n the number (for a float: twice  *)
(* the number, so that x.5 is representable), s the text of a str.         *)
(***************************************************************************)
PyNone == [t |-> "none", n |-> 0, s |-> ""]
PyInt(i) == [t |-> "int", n |-> i, s |-> ""]
PyFloat2(twice) == [t |-> "float", n |-> twice, s |-> ""]
PyBool(b) == [t |-> "bool", n |-> IF b THEN 1 ELSE 0, s |-> ""]
PyStr(str) == [t |-> "str", n |-> 0, s |-> str]

MISSING_MANDATORY == PyStr("MISSING_MANDATORY")
SKIP_RULE == PyStr("SKIP_RULE")

\* twice the numeric value of an int or float
Twice(v) == IF v.t = "float" THEN v.n ELSE 2 * v.n

(***************************************************************************)
(* Solver terms and formulas.  One node shape for all:                     *)
(*   var   : name, op = sort      const : val                              *)
(*   cmp   : op, args = <<l, r>>  and / or : args    not : args = <<f>>    *)
(*   error : an exception raised while building, name = its message        *)
(***************************************************************************)
Node(k, op, name, val, args) ==
    [k |-> k, op |-> op, name |-> name, val |-> val, args |-> args]
\* a solver symbol carries its sort (in op)
VarNode(name, sort) == Node("var", sort, name, PyNone, << >>)
ConstNode(val) == Node("const", "", "", val, << >>)
CmpNode(op, l, r) == Node("cmp", op, "", PyNone, <<l, r>>)
AndNode(parts) == Node("and", "", "", PyNone, parts)
OrNode(parts) == Node("or", "", "", PyNone, parts)
NotNode(f) == Node("not", "", "", PyNone, <<f>>)
ImpliesNode(l, r) == Node("implies", "", "", PyNone, <<l, r>>)
Raise(msg) == Node("error", "", msg, PyNone, << >>)

IsError(node) == node.k = "error"

\* the first exception raised while the parts are built left to right
RECURSIVE FirstError(_)
FirstError(parts) ==
    IF parts = << >> THEN Raise("")
    ELSE IF IsError(Head(parts)) THEN Head(parts)
    ELSE FirstError(Tail(parts))

AnyError(parts) == \E i \in 1..Len(parts) : IsError(parts[i])

(***************************************************************************)
(* Lexical tables: what Python's startswith/endswith quote test, int(),    *)
(* float() and lower() make of the operand texts used in the model.        *)
(***************************************************************************)
QuotedLiterals == {"'low'", "'high'", "'urgent'"}
Unquote(e) ==
    CASE e = "'low'" -> "low"
      [] e = "'high'" -> "high"
      [] e = "'urgent'" -> "urgent"
      [] OTHER -> ""
IntLiterals == <<"0", "1", "2", "3">>
IsIntLiteral(e) == \E i \in 1..Len(IntLiterals) : IntLiterals[i] = e
IntOf(e) == (CHOOSE i \in 1..Len(IntLiterals) : IntLiterals[i] = e) - 1
\* texts with a decimal point, with twice the value float() gives
RealLiterals == {"0.5", "1.5", "2.0"}
TwiceFloatOf(e) ==
    CASE e = "0.5" -> 1
      [] e = "1.5" -> 3
      [] e = "2.0" -> 4
      [] OTHER -> 0
Lower(e) ==
    CASE e \in {"true", "True", "TRUE"} -> "true"
      [] e \in {"false", "False", "FALSE"} -> "false"
      [] OTHER -> e

SortOf(term) ==
    IF term.k = "var" THEN term.op
    ELSE CASE term.val.t = "int" -> "Int"
           [] term.val.t = "float" -> "Real"
           [] term.val.t = "bool" -> "Bool"
           [] OTHER -> "String"

(***************************************************************************)
(* RuleCompiler._get_z3_expression: operand text -> constant or symbol.    *)
(* An operand of several tokens (or none) is no literal and no name.       *)
(***************************************************************************)
GetZ3Expression(expr, z3_vars) ==
    IF Len(expr) # 1 THEN Raise("Unknown variable")
    ELSE LET e == expr[1] IN
         IF e \in QuotedLiterals THEN ConstNode(PyStr(Unquote(e)))
         ELSE IF e \in RealLiterals THEN ConstNode(PyFloat2(TwiceFloatOf(e)))
         ELSE IF IsIntLiteral(e) THEN ConstNode(PyInt(IntOf(e)))
         ELSE IF Lower(e) \in {"true", "false"}
              THEN ConstNode(PyBool(Lower(e) = "true"))
         ELSE IF e \in DOMAIN z3_vars THEN VarNode(e, z3_vars[e])
         ELSE Raise("Unknown variable")

(***************************************************************************)
(* The comparison the overloaded Python operator builds from two terms.    *)
(* Arithmetic sorts (and Bool, which the binding coerces to 0/1) mix;      *)
(* String against another sort is a sort mismatch; Bool has no ordering.   *)
(***************************************************************************)
ArithSorts == {"Int", "Real"}
MkCompare(op, l, r) ==
    IF IsError(l) THEN l
    ELSE IF IsError(r) THEN r
    ELSE LET sl == SortOf(l)
             sr == SortOf(r)
         IN  IF sl = "Bool" /\ sr = "Bool" /\ op \notin {"==", "!="}
             THEN Raise("TypeError")
             ELSE IF sl = sr \/ {sl, sr} \subseteq (ArithSorts \cup {"Bool"})
             THEN CmpNode(op, l, r)
             ELSE Raise("sort mismatch")

(***************************************************************************)
(* str.split(sep) for sep = ' OR ' / ' AND ': a keyword token separates    *)
(* only with a token on each side.                                         *)
(***************************************************************************)
HasInterior(toks, kw) == \E i \in 2..(Len(toks) - 1) : toks[i] = kw
FirstInterior(toks, kw) ==
    CHOOSE i \in 2..(Len(toks) - 1) :
        toks[i] = kw /\ \A j \in 2..(i - 1) : toks[j] # kw
RECURSIVE SplitOn(_, _)
SplitOn(toks, kw) ==
    IF ~HasInterior(toks, kw) THEN <<toks>>
    ELSE LET i == FirstInterior(toks, kw)
         IN  <<SubSeq(toks, 1, i - 1)>> \o SplitOn(SubSeq(toks, i + 1, Len(toks)), kw)

\* comparison operators in the order _parse_atomic_condition tries them
Operators == <<">=", "<=", "!=", "==", ">", "<">>
HasToken(toks, tok) == \E i \in 1..Len(toks) : toks[i] = tok
FirstToken(toks, tok) ==
    CHOOSE i \in 1..Len(toks) : toks[i] = tok /\ \A j \in 1..(i - 1) : toks[j] # tok
FirstOperator(toks) ==
    CHOOSE k \in 1..Len(Operators) :
        HasToken(toks, Operators[k]) /\ \A j \in 1..(k - 1) : ~HasToken(toks, Operators[j])

RECURSIVE ParseCondition(_, _)
RECURSIVE ParseAtomicCondition(_, _)

\* z3.Or / z3.And over the parsed parts; an exception in a part propagates
ParseParts(parts, z3_vars) ==
    [i \in 1..Len(parts) |-> ParseCondition(parts[i], z3_vars)]
ParseOrCondition(condition, z3_vars) ==
    LET z3_parts == ParseParts(SplitOn(condition, "OR"), z3_vars)
    IN  IF AnyError(z3_parts) THEN FirstError(z3_parts) ELSE OrNode(z3_parts)
ParseAndCondition(condition, z3_vars) ==
    LET z3_parts == ParseParts(SplitOn(condition, "AND"), z3_vars)
    IN  IF AnyError(z3_parts) THEN FirstError(z3_parts) ELSE AndNode(z3_parts)

\* RuleCompiler._parse_atomic_condition
ParseAtomicCondition(condition, z3_vars) ==
    IF Len(condition) >= 2 /\ condition[1] = "(" /\ condition[Len(condition)] = ")"
    THEN ParseCondition(SubSeq(condition, 2, Len(condition) - 1), z3_vars)
    ELSE IF \E k \in 1..Len(Operators) : HasToken(condition, Operators[k])
    THEN LET op == Operators[FirstOperator(condition)]
             i == FirstToken(condition, op)
             left == SubSeq(condition, 1, i - 1)
             right == SubSeq(condition, i + 1, Len(condition))
         IN  MkCompare(op, GetZ3Expression(left, z3_vars), GetZ3Expression(right, z3_vars))
    ELSE Raise("Could not parse atomic condition")

\* the same parser trying ' AND ' before ' OR '
ParseConditionAndFirst(condition, z3_vars) ==
    IF HasInterior(condition, "AND") THEN ParseAndCondition(condition, z3_vars)
    ELSE IF HasInterior(condition, "OR") THEN ParseOrCondition(condition, z3_vars)
    ELSE IF Len(condition) >= 2 /\ condition[1] = "NOT"
         THEN LET inner == ParseCondition(Tail(condition), z3_vars)
              IN  IF IsError(inner) THEN inner ELSE NotNode(inner)
    ELSE ParseAtomicCondition(condition, z3_vars)

\* RuleCompiler._parse_condition: ' OR ' first, then ' AND ', then 'NOT '
ParseCondition(condition, z3_vars) ==
    IF HasInterior(condition, "OR") THEN ParseOrCondition(condition, z3_vars)
    ELSE IF HasInterior(condition, "AND") THEN ParseAndCondition(condition, z3_vars)
    ELSE IF Len(condition) >= 2 /\ condition[1] = "NOT"
         THEN LET inner == ParseCondition(Tail(condition), z3_vars)
              IN  IF IsError(inner) THEN inner ELSE NotNode(inner)
    ELSE ParseAtomicCondition(condition, z3_vars)

(***************************************************************************)
(* Truth of a formula under an interpretation of the symbols.              *)
(***************************************************************************)
StrRank(str) ==
    CASE str = "" -> 0
      [] str = "high" -> 1
      [] str = "low" -> 2
      [] str = "other" -> 3
      [] str = "urgent" -> 4
      [] OTHER -> 5
PyCompare(op, a, b) ==
    LET x == IF a.t = "str" THEN StrRank(a.s) ELSE Twice(a)
        y == IF b.t = "str" THEN StrRank(b.s) ELSE Twice(b)
    IN  CASE op = "==" -> IF a.t = "str" THEN a.s = b.s ELSE x = y
          [] op = "!=" -> IF a.t = "str" THEN a.s # b.s ELSE x # y
          [] op = ">" -> x > y
          [] op = "<" -> x < y
          [] op = ">=" -> x >= y
          [] OTHER -> x <= y
TermValue(term, env) == IF term.k = "var" THEN env[term.name] ELSE term.val
RECURSIVE Holds(_, _)
Holds(f, env) ==
    CASE f.k = "cmp" -> PyCompare(f.op, TermValue(f.args[1], env), TermValue(f.args[2], env))
      [] f.k = "and" -> \A i \in 1..Len(f.args) : Holds(f.args[i], env)
      [] f.k = "or" -> \E i \in 1..Len(f.args) : Holds(f.args[i], env)
      [] f.k = "not" -> ~Holds(f.args[1], env)
      [] f.k = "implies" -> Holds(f.args[1], env) => Holds(f.args[2], env)
      [] f.k = "var" -> env[f.name] = PyBool(TRUE)
      [] OTHER -> FALSE

(***************************************************************************)
(* Conditions of the grammar of the condition language, as trees, their    *)
(* text, and their truth under given facts (the reference interpreter).    *)
(*   atom : a comparison [var, op, lit]      paren : ( kid )               *)
(*   not / and / or over kids                                              *)
(***************************************************************************)
NoAtom == [var |-> "", op |-> "", lit |-> PyNone]
Tree(k, atom, kids) == [k |-> k, atom |-> atom, kids |-> kids]
TAtom(var, op, lit) == Tree("atom", [var |-> var, op |-> op, lit |-> lit], << >>)
TNot(t) == Tree("not", NoAtom, <<t>>)
TParen(t) == Tree("paren", NoAtom, <<t>>)
TAnd(l, r) == Tree("and", NoAtom, <<l, r>>)
TOr(l, r) == Tree("or", NoAtom, <<l, r>>)

\* the literal text of a value
LitToken(lit) ==
    CASE lit.t = "int" -> IntLiterals[lit.n + 1]
      [] lit.t = "bool" -> IF lit.n = 1 THEN "true" ELSE "false"
      [] lit.t = "float" -> (CHOOSE e \in RealLiterals : TwiceFloatOf(e) = lit.n)
      [] OTHER -> (CHOOSE e \in QuotedLiterals : Unquote(e) = lit.s)

Parens(toks) == <<"(">> \o toks \o <<")">>
RECURSIVE Render(_)
\* an operand of NOT (grammar: unary) and of AND (grammar: unary)
RenderUnary(t) == IF t.k \in {"and", "or"} THEN Parens(Render(t)) ELSE Render(t)
RenderAndOperand(t) == IF t.k = "or" THEN Parens(Render(t)) ELSE Render(t)
Render(t) ==
    CASE t.k = "atom" -> <<t.atom.var, t.atom.op, LitToken(t.atom.lit)>>
      [] t.k = "paren" -> Parens(Render(t.kids[1]))
      [] t.k = "not" -> <<"NOT">> \o RenderUnary(t.kids[1])
      [] t.k = "and" ->
           RenderAndOperand(t.kids[1]) \o <<"AND">> \o RenderAndOperand(t.kids[2])
      [] OTHER -> Render(t.kids[1]) \o <<"OR">> \o Render(t.kids[2])

RECURSIVE RefHolds(_, _)
RefHolds(t, facts) ==
    CASE t.k = "atom" -> PyCompare(t.atom.op, facts[t.atom.var], t.atom.lit)
      [] t.k = "paren" -> RefHolds(t.kids[1], facts)
      [] t.k = "not" -> ~RefHolds(t.kids[1], facts)
      [] t.k = "and" -> RefHolds(t.kids[1], facts) /\ RefHolds(t.kids[2], facts)
      [] OTHER -> RefHolds(t.kids[1], facts) \/ RefHolds(t.kids[2], facts)

RECURSIVE TreeVars(_)
TreeVars(t) ==
    IF t.k = "atom" THEN {t.atom.var}
    ELSE UNION {TreeVars(t.kids[i]) : i \in 1..Len(t.kids)}

HasParens(t) == HasToken(Render(t), "(")

(***************************************************************************)
(* Policies.  A variable declaration is the dict of PolicyVariable:        *)
(* is_mandatory is "true", "false" or "absent" (key not in the dict),      *)
(* default_value a str or None.  A rule keeps its condition as text.       *)
(***************************************************************************)
Decl(name, type, possible_values, is_mandatory, default_value) ==
    [name |-> name, type |-> type, possible_values |-> possible_values,
     is_mandatory |-> is_mandatory, default_value |-> default_value]
Rule(id, description, tree, conclusion) ==
    [id |-> id, description |-> description, condition |-> Render(tree),
     conclusion |-> conclusion]

\* an ordered dict: a sequence of items with distinct names
Item(name, value) == [name |-> name, value |-> value]
Keys(dict) == {dict[i].name : i \in 1..Len(dict)}
Lookup(dict, name) == dict[CHOOSE i \in 1..Len(dict) : dict[i].name = name].value
\* dict.get(name): None for an absent key
Get(map, name) == IF name \in DOMAIN map THEN map[name] ELSE PyNone

(***************************************************************************)
(* VariableExtractorService._apply_default_values                          *)
(***************************************************************************)
\* the conversion of a declared default to the variable's type
CoerceDefault(policy_var) ==
    LET text == policy_var.default_value.s
    IN  CASE policy_var.type = "boolean" -> PyBool(Lower(text) = "true")
          [] policy_var.type = "number" ->
               IF text \in RealLiterals THEN PyFloat2(TwiceFloatOf(text))
               ELSE PyInt(IntOf(text))
          [] OTHER -> policy_var.default_value

\* policy_var.get('is_mandatory', True)
IsMandatory(policy_var) == policy_var.is_mandatory # "false"

\* the same resolver testing the extracted value for truth instead of None
ResolveVariableTruthy(extracted_variables, policy_var) ==
    LET extracted_value == Get(extracted_variables, policy_var.name)
        has_default == policy_var.default_value # PyNone
    IN  IF extracted_value \notin {PyNone, PyInt(0), PyBool(FALSE), PyStr("")}
        THEN extracted_value
        ELSE IF has_default THEN CoerceDefault(policy_var)
        ELSE IF IsMandatory(policy_var) THEN MISSING_MANDATORY
        ELSE SKIP_RULE

ResolveVariable(extracted_variables, policy_var) ==
    LET extracted_value == Get(extracted_variables, policy_var.name)
        has_default == policy_var.default_value # PyNone
    IN  IF extracted_value # PyNone THEN extracted_value
        ELSE IF has_default THEN CoerceDefault(policy_var)
        ELSE IF IsMandatory(policy_var) THEN MISSING_MANDATORY
        ELSE SKIP_RULE

ApplyDefaultValues(extracted_variables, policy_variables) ==
    [i \in 1..Len(policy_variables) |->
        Item(policy_variables[i].name,
             ResolveVariable(extracted_variables, policy_variables[i]))]

(***************************************************************************)
(* RuleCompiler.compile_policy.  The symbols and the parser are those of   *)
(* the compiler; the record made for a rule (with its conclusion and the   *)
(* original rule, which verify_scenario reads) is that of the service      *)
(* compiler: the formula of the condition, not negated.                    *)
(***************************************************************************)
TypedTypes == {"string", "number", "boolean", "date", "enum"}
SortOfType(type) ==
    CASE type \in {"string", "enum"} -> "String"
      [] type \in {"number", "date"} -> "Int"
      [] OTHER -> "Bool"
DeclNamed(variables, name) ==
    variables[CHOOSE i \in 1..Len(variables) : variables[i].name = name]
\* _create_z3_variables: one symbol per variable of a known type
CreateZ3Variables(variables) ==
    [name \in {variables[i].name : i \in {j \in 1..Len(variables) : variables[j].type \in TypedTypes}} |->
        SortOfType(DeclNamed(variables, name).type)]
\* the enum-domain formulas _create_z3_variables appends to self.constraints
EnumConstraint(var) ==
    OrNode([j \in 1..Len(var.possible_values) |->
        CmpNode("==", VarNode(var.name, "String"), ConstNode(PyStr(var.possible_values[j])))])
IsEnum(var) == var.type = "enum"
EnumConstraints(variables) ==
    LET enums == SelectSeq(variables, IsEnum)
    IN  [i \in 1..Len(enums) |-> EnumConstraint(enums[i])]

CompiledRule(rule, z3_vars) ==
    [id |-> rule.id, description |-> rule.description, conclusion |-> rule.conclusion,
     constraint |-> ParseCondition(rule.condition, z3_vars), original_rule |-> rule]

\* compile_policy: what it returns, or the exception it raises (error # "")
CompilePolicy(policy_dict) ==
    LET z3_vars == CreateZ3Variables(policy_dict.variables)
        z3_rules == [i \in 1..Len(policy_dict.rules) |->
                        CompiledRule(policy_dict.rules[i], z3_vars)]
        z3_constraints == [i \in 1..Len(policy_dict.constraints) |->
                              ParseCondition(policy_dict.constraints[i], z3_vars)]
        formulas == [i \in 1..Len(z3_rules) |-> z3_rules[i].constraint] \o z3_constraints
    IN  [error |-> IF AnyError(formulas) THEN FirstError(formulas).name ELSE "",
         variables |-> z3_vars,
         rules |-> z3_rules,
         constraints |-> z3_constraints]

(***************************************************************************)
(* A RuleCompiler instance: the fields __init__ creates and compile_policy *)
(* writes, and the two _compile_rule methods of the compilers in src.      *)
(***************************************************************************)
\* the text of a conclusion, as tokens
ConclusionTokens(conclusion) ==
    IF conclusion = "ok == true" THEN <<"ok", "==", "true">> ELSE <<conclusion>>

\* rule_compiler_implementation.py, _compile_rule
CompileRule(rule, z3_vars) ==
    LET condition == ParseCondition(rule.condition, z3_vars)
    IN  IF IsError(condition) THEN condition
        ELSE IF rule.conclusion = "valid" THEN condition
        ELSE IF rule.conclusion = "invalid" THEN NotNode(condition)
        ELSE LET conclusion == ParseCondition(ConclusionTokens(rule.conclusion), z3_vars)
             IN  IF IsError(conclusion) THEN conclusion
                 ELSE ImpliesNode(condition, conclusion)

\* rule_compiler_test_with_new_policy_prompt.py, _compile_rule
CompileRuleNewPrompt(rule, z3_vars) ==
    LET condition == ParseCondition(rule.condition, z3_vars)
    IN  IF IsError(condition) THEN condition
        ELSE IF rule.conclusion = "valid" THEN condition
        ELSE IF rule.conclusion = "invalid" THEN NotNode(condition)
        ELSE Raise("Invalid conclusion")

\* _create_z3_variables on an instance: entries are added or overwritten,
\* nothing is removed
CreateZ3VariablesOn(self, variables) ==
    [z3_vars |-> CreateZ3Variables(variables) @@ self.z3_vars,
     constraints |-> self.constraints \o EnumConstraints(variables),
     variables |-> self.variables \cup {variables[i].name : i \in 1..Len(variables)}]

\* compile_policy on an instance with the given fields: the fields after the
\* call and what the call returned (error # "": it raised)
CompilePolicyOn(self, policy_dict, new_prompt) ==
    LET after == CreateZ3VariablesOn(self, policy_dict.variables)
        z3_rules ==
            [i \in 1..Len(policy_dict.rules) |->
                [id |-> policy_dict.rules[i].id,
                 constraint |-> IF new_prompt
                                THEN CompileRuleNewPrompt(policy_dict.rules[i], after.z3_vars)
                                ELSE CompileRule(policy_dict.rules[i], after.z3_vars),
                 description |-> policy_dict.rules[i].description]]
        z3_constraints == [i \in 1..Len(policy_dict.constraints) |->
                              ParseCondition(policy_dict.constraints[i], after.z3_vars)]
        formulas == [i \in 1..Len(z3_rules) |-> z3_rules[i].constraint] \o z3_constraints
        raised == AnyError(formulas)
    IN  [self |-> after,
         result |-> [error |-> IF raised THEN FirstError(formulas).name ELSE "",
                     variables |-> IF raised THEN << >> ELSE after.z3_vars,
                     rules |-> IF raised THEN << >> ELSE z3_rules,
                     constraints |-> IF raised THEN << >> ELSE z3_constraints]]

(***************************************************************************)
(* The solver: a session is the sequence of asserted formulas; it is       *)
(* satisfiable when some interpretation of the symbols makes all true.     *)
(***************************************************************************)
Universe(sort) ==
    CASE sort = "Int" -> {PyInt(i) : i \in (0 - 1)..(MaxInt + 1)}
      [] sort = "String" -> {PyStr(str) : str \in {"low", "high", "urgent", "other"}}
      [] OTHER -> {PyBool(FALSE), PyBool(TRUE)}
RECURSIVE InterpretationsOf(_, _)
InterpretationsOf(z3_vars, names) ==
    IF names = {} THEN {[x \in {} |-> PyNone]}
    ELSE LET name == CHOOSE x \in names : TRUE
         IN  {f @@ (name :> v) : f \in InterpretationsOf(z3_vars, names \ {name}),
                                   v \in Universe(z3_vars[name])}
Interpretations(z3_vars) == InterpretationsOf(z3_vars, DOMAIN z3_vars)
\* the Bool symbols asserted as formulas (the placeholders of the fallback)
AssertedSymbols(assertions) ==
    [name \in {assertions[i].name : i \in {j \in 1..Len(assertions) : assertions[j].k = "var"}}
        |-> "Bool"]
Sat(assertions, z3_vars) ==
    \E env \in Interpretations(z3_vars @@ AssertedSymbols(assertions)) :
        \A i \in 1..Len(assertions) : Holds(assertions[i], env)

(***************************************************************************)
(* VerificationService                                                     *)
(***************************************************************************)
\* _reconstruct_z3_objects, lines 25-60: the fallback for storage data
\* without the original policy; a placeholder rule has neither conclusion
\* nor original_rule (.get gives None and the empty texts)
ReconstructPlaceholders(serialized_policy) ==
    LET known == SelectSeq(serialized_policy.variables,
                           LAMBDA var : var.type \in {"string", "enum", "number", "boolean"})
    IN  [error |-> "",
         variables |-> CreateZ3Variables(known),
         rules |-> [i \in 1..Len(serialized_policy.rules) |->
                      [id |-> serialized_policy.rules[i].id,
                       description |-> serialized_policy.rules[i].description,
                       conclusion |-> "None",
                       constraint |-> VarNode("rule_" \o serialized_policy.rules[i].id, "Bool"),
                       original_rule |-> [condition |-> << >>, description |-> << >>]]],
         constraints |-> [i \in 1..Len(serialized_policy.constraints) |->
                            VarNode("constraint_" \o ToString(i - 1), "Bool")]]
\* _reconstruct_z3_objects
ReconstructZ3Objects(storage_data) ==
    IF "original_policy" \in DOMAIN storage_data
    THEN CompilePolicy(storage_data.original_policy)
    ELSE ReconstructPlaceholders(storage_data.serializable_data)

\* a gate that finds no marker
MissingNothing(extracted_variables) == << >>
\* lines 67-68
MissingMandatory(extracted_variables) ==
    LET missing == SelectSeq(extracted_variables, LAMBDA it : it.value = MISSING_MANDATORY)
    IN  [i \in 1..Len(missing) |-> missing[i].name]
\* lines 91-95
SkippedVariables(extracted_variables) ==
    LET skipped == SelectSeq(extracted_variables, LAMBDA it : it.value = SKIP_RULE)
    IN  [i \in 1..Len(skipped) |-> skipped[i].name]
EffectiveVariables(extracted_variables) ==
    SelectSeq(extracted_variables,
              LAMBDA it : it.value \notin {SKIP_RULE, MISSING_MANDATORY, PyNone})

\* lines 137-153: the equalities added for the effective variables; a value
\* whose equality cannot be built is printed and left out
RECURSIVE AssertVariables(_, _)
AssertVariables(effective, z3_vars) ==
    IF effective = << >> THEN << >>
    ELSE LET it == Head(effective)
             rest == AssertVariables(Tail(effective), z3_vars)
         IN  IF it.name \notin DOMAIN z3_vars THEN rest
             ELSE LET eq == MkCompare("==", VarNode(it.name, z3_vars[it.name]),
                                       ConstNode(it.value))
                  IN  IF IsError(eq) THEN rest ELSE <<eq>> \o rest

\* the words of a text the regular expression \b name \b can match
WordsOf(toks) ==
    {toks[i] : i \in 1..Len(toks)} \cup
    {Unquote(toks[i]) : i \in {j \in 1..Len(toks) : toks[j] \in QuotedLiterals}}
\* a dependency test that finds no rule dependent
RuleDependsOnNothing(compiled_rule, variable_names) == FALSE
\* _rule_depends_on_variables
RuleDependsOnVariables(compiled_rule, variable_names) ==
    /\ variable_names # << >>
    /\ LET rule_text == WordsOf(compiled_rule.original_rule.condition) \cup
                        WordsOf(compiled_rule.original_rule.description)
       IN  \E i \in 1..Len(variable_names) : variable_names[i] \in rule_text

RuleResult(compiled_rule, result, reason, error) ==
    [rule_id |-> compiled_rule.id, result |-> result,
     description |-> compiled_rule.description, reason |-> reason, error |-> error]

Explanation(text, items, detail) ==
    [text |-> text, items |-> items, detail |-> detail, summary |-> << >>]
\* an explanation that names the first failed rule only
ExplainFirstRule(is_valid, failed) ==
    IF is_valid THEN Explanation("All policy rules are satisfied", << >>, "")
    ELSE Explanation("The scenario violates the following policy rules",
                     [i \in 1..(IF Len(failed) > 0 THEN 1 ELSE 0) |->
                         [id |-> failed[i].id, description |-> failed[i].description]],
                     "")
\* explain_verification_result
ExplainVerificationResult(is_valid, failed) ==
    IF is_valid THEN Explanation("All policy rules are satisfied", << >>, "")
    ELSE Explanation("The scenario violates the following policy rules",
                     [i \in 1..Len(failed) |->
                         [id |-> failed[i].id, description |-> failed[i].description]],
                     "")
\* generate_suggestions (the rule ids of the model hold none of its keywords)
GenerateSuggestions(failed) ==
    [i \in 1..Len(failed) |-> [kind |-> "review", about |-> failed[i].description]]
    \o (IF Len(failed) > 1
        THEN <<[kind |-> "split", about |-> << >>], [kind |-> "contact", about |-> << >>]>>
        ELSE << >>)
\* generate_clarifying_questions, called without Missing markers in the map
GenerateClarifyingQuestions(effective) ==
    IF Len(effective) > 0
    THEN <<[kind |-> "circumstances", about |-> << >>],
           [kind |-> "procedures", about |-> << >>],
           [kind |-> "context", about |-> << >>]>>
    ELSE <<[kind |-> "details", about |-> << >>],
           [kind |-> "facts", about |-> << >>],
           [kind |-> "outcome", about |-> << >>]>>
\* _generate_mandatory_questions: one question per name, at most three
QuestionLimit == 3
GenerateMandatoryQuestions(missing_vars) ==
    LET questions == [i \in 1..Len(missing_vars) |->
                         [kind |-> "variable", about |-> <<missing_vars[i]>>]]
    IN  SubSeq(questions, 1, IF Len(questions) < QuestionLimit THEN Len(questions)
                             ELSE QuestionLimit)

Outcome(result, results, failed, explanation, suggestions, missing) ==
    [result |-> result, rule_results |-> results, failed_rules |-> failed,
     explanation |-> explanation, suggestions |-> suggestions,
     missing_mandatory_vars |-> missing]
\* an error outcome that does not record the exception
ErrorWithoutMessage(message) ==
    Outcome("ERROR", << >>, << >>, Explanation("Verification failed", << >>, ""),
            << >>, << >>)
\* lines 276-283
ErrorOutcome(message) ==
    Outcome("ERROR", << >>, << >>, Explanation("Verification failed", << >>, message),
            << >>, << >>)

\* an aggregation that takes a scenario no rule applies to for valid
VerdictValidByDefault(effective, violated, supporting, skipped, failed) ==
    IF Len(effective) = 0
    THEN [result |-> "NEEDS_CLARIFICATION",
          explanation |-> Explanation("Unable to extract sufficient information", << >>, ""),
          suggestions |-> GenerateClarifyingQuestions(effective)]
    ELSE IF Len(violated) > 0
    THEN [result |-> "INVALID",
          explanation |-> ExplainVerificationResult(FALSE, failed),
          suggestions |-> GenerateSuggestions(failed)]
    ELSE [result |-> "VALID",
          explanation |-> ExplainVerificationResult(TRUE, << >>),
          suggestions |-> << >>]
\* an aggregation that looks at the supporting rules before the violated ones
VerdictSupportingFirst(effective, violated, supporting, skipped, failed) ==
    IF Len(effective) = 0
    THEN [result |-> "NEEDS_CLARIFICATION",
          explanation |-> Explanation("Unable to extract sufficient information", << >>, ""),
          suggestions |-> GenerateClarifyingQuestions(effective)]
    ELSE IF Len(supporting) > 0
    THEN [result |-> "VALID",
          explanation |-> ExplainVerificationResult(TRUE, << >>),
          suggestions |-> << >>]
    ELSE IF Len(violated) > 0
    THEN [result |-> "INVALID",
          explanation |-> ExplainVerificationResult(FALSE, failed),
          suggestions |-> GenerateSuggestions(failed)]
    ELSE IF Len(skipped) > 0
    THEN [result |-> "VALID",
          explanation |-> Explanation("No policy violations found, rules were skipped",
                                      << >>, ""),
          suggestions |-> << >>]
    ELSE [result |-> "NEEDS_CLARIFICATION",
          explanation |-> Explanation("Unable to determine validity, no policy rules apply",
                                      << >>, ""),
          suggestions |-> GenerateClarifyingQuestions(effective)]

\* lines 234-259: result, explanation and suggestions
Verdict(effective, violated, supporting, skipped, failed) ==
    IF Len(effective) = 0
    THEN [result |-> "NEEDS_CLARIFICATION",
          explanation |-> Explanation("Unable to extract sufficient information", << >>, ""),
          suggestions |-> GenerateClarifyingQuestions(effective)]
    ELSE IF Len(violated) > 0
    THEN [result |-> "INVALID",
          explanation |-> ExplainVerificationResult(FALSE, failed),
          suggestions |-> GenerateSuggestions(failed)]
    ELSE IF Len(supporting) > 0
    THEN [result |-> "VALID",
          explanation |-> ExplainVerificationResult(TRUE, << >>),
          suggestions |-> << >>]
    ELSE IF Len(skipped) > 0
    THEN [result |-> "VALID",
          explanation |-> Explanation("No policy violations found, rules were skipped",
                                      << >>, ""),
          suggestions |-> << >>]
    ELSE [result |-> "NEEDS_CLARIFICATION",
          explanation |-> Explanation("Unable to determine validity, no policy rules apply",
                                      << >>, ""),
          suggestions |-> GenerateClarifyingQuestions(effective)]

\* lines 261-266: the rule summary appended to the explanation
WithRuleSummary(explanation, total_rules, applicable, violated, skipped) ==
    LET active_rules == Len(applicable) + Len(violated)
    IN  IF Len(skipped) > 0 \/ active_rules < total_rules
        THEN [explanation EXCEPT !.summary =
                 <<active_rules, Len(skipped), total_rules - active_rules - Len(skipped)>>]
        ELSE explanation

(***************************************************************************)
(* State.                                                                  *)
(***************************************************************************)
VARIABLES
    pc,          \* position of the operation in progress
    policy,      \* the policy: variables, rules, constraints
    raw,         \* the fact map the extractor's JSON gave (name -> value)
    extracted,   \* the resolver's result, the fact map of verify_scenario
    tree,        \* parser check: the condition given to the compiler
    parsed,      \* parser check: what _parse_condition returned
    z3_constraints,          \* the stored compiled policy given to verify_scenario
    reconstructed_policy,    \* verify_scenario: the policy compiled from storage
    effective_variables,     \* verify_scenario: the entries that are values
    skipped_variables,       \* verify_scenario: the names marked SKIP_RULE
    all_constraints_solver,  \* the formulas asserted in the session queried
    rule_index,              \* position of the loop over the compiled rules
    rule_results,
    failed_rules,
    applicable_rules,
    violated_rules,
    supporting_rules,
    skipped_rules,
    solver_log,  \* the calls made on storage and solver, in order
    outcome,     \* the dict verify_scenario returned
    shared_compiler,  \* the fields of the RuleCompiler instance that is reused
    compile_calls,    \* the compile_policy calls made, with what each returned
    db_policy,        \* the policies table row: content version and status
    db_compilations,  \* the policy_compilations rows, oldest first
    verifications     \* the verify requests served, oldest first

inputs == <<policy, raw>>
parser == <<tree, parsed>>
session == <<reconstructed_policy, effective_variables, skipped_variables,
             all_constraints_solver>>
lists == <<rule_results, failed_rules, applicable_rules, violated_rules,
           supporting_rules, skipped_rules>>
verifier == <<z3_constraints, session, rule_index, lists, solver_log, outcome>>
compiling == <<shared_compiler, compile_calls>>
api == <<db_policy, db_compilations, verifications>>
vars == <<pc, policy, raw, extracted, tree, parsed, verifier, compiling, api>>

NoPolicy == [variables |-> << >>, rules |-> << >>, constraints |-> << >>]
NoTree == Tree("none", NoAtom, << >>)
NotParsed == Raise("not parsed yet")
NoStorage == [form |-> "none", original_policy |-> NoPolicy]
NotCompiled ==
    [error |-> "not compiled yet", variables |-> << >>, rules |-> << >>,
     constraints |-> << >>]
NoOutcome ==
    Outcome("", << >>, << >>, Explanation("", << >>, ""), << >>, << >>)
NewCompiler == [z3_vars |-> << >>, constraints |-> << >>, variables |-> {}]
NoRow == [variables |-> << >>, rules |-> << >>, constraints |-> << >>, status |-> "none"]
\* no compile_policy call has been made, the tables are empty
NotCompiling ==
    /\ shared_compiler = NewCompiler
    /\ compile_calls = << >>
    /\ db_policy = NoRow
    /\ db_compilations = << >>
    /\ verifications = << >>
\* verify_scenario has not been entered
NotVerifying ==
    /\ reconstructed_policy = NotCompiled
    /\ effective_variables = << >>
    /\ skipped_variables = << >>
    /\ all_constraints_solver = << >>
    /\ rule_index = 0
    /\ rule_results = << >>
    /\ failed_rules = << >>
    /\ applicable_rules = << >>
    /\ violated_rules = << >>
    /\ supporting_rules = << >>
    /\ skipped_rules = << >>
    /\ solver_log = << >>
    /\ outcome = NoOutcome

(***************************************************************************)
(* The parser applied to the conditions of the grammar.                    *)
(***************************************************************************)
\* the symbols _create_z3_variables makes for number, enum and boolean
ParseVars == [amount |-> "Int", level |-> "String", ok |-> "Bool"]
Atoms ==
    { TAtom("amount", ">", PyInt(1)),
      TAtom("level", "==", PyStr("high")),
      TAtom("ok", "==", PyBool(TRUE)) }
Unary(S) == {TNot(t) : t \in S} \cup {TParen(t) : t \in S}
Binary(S) == {TAnd(l, r) : l, r \in S} \cup {TOr(l, r) : l, r \in S}
Shallow == Atoms \cup Unary(Atoms) \cup Binary(Atoms)
Conditions == Shallow \cup Unary(Shallow) \cup Binary(Shallow)

\* facts that make every combination of the three atoms true and false
ParseFacts ==
    [amount : {PyInt(1), PyInt(2)},
     level : {PyStr("low"), PyStr("high")},
     ok : {PyBool(FALSE), PyBool(TRUE)}]

InitParse ==
    /\ pc = "parse"
    /\ tree \in Conditions
    /\ parsed = NotParsed
    /\ policy = NoPolicy
    /\ raw = << >>
    /\ extracted = << >>
    /\ z3_constraints = NoStorage
    /\ NotVerifying
    /\ NotCompiling

CompileCondition ==
    /\ pc = "parse"
    /\ parsed' = ParseCondition(Render(tree), ParseVars)
    /\ pc' = "parsed"
    /\ UNCHANGED <<tree, inputs, extracted, verifier, compiling, api>>

NextParse == CompileCondition
SpecParse == InitParse /\ [][NextParse]_vars

(***************************************************************************)
(* The resolver applied to declarations and raw fact maps.                 *)
(***************************************************************************)
Mandatoriness == {"true", "false", "absent"}
AmountDecls ==
    {Decl("amount", "number", << >>, m, d) :
        m \in Mandatoriness, d \in {PyNone, PyStr("2"), PyStr("1.5")}}
LevelDecls ==
    {Decl("level", "enum", <<"low", "high">>, m, d) :
        m \in Mandatoriness, d \in {PyNone, PyStr("low")}}
OkDecls ==
    {Decl("ok", "boolean", << >>, m, d) :
        m \in Mandatoriness, d \in {PyNone, PyStr("True"), PyStr("no")}}

\* a raw map from one choice per key, Absent meaning the key is not there
Absent == [t |-> "absent", n |-> 0, s |-> ""]
WithoutAbsent(f) == [k \in {x \in DOMAIN f : f[x] # Absent} |-> f[k]]
RawMaps(amounts, levels, oks, notes) ==
    {WithoutAbsent(f) : f \in [amount : amounts, level : levels, ok : oks, note : notes]}

InitResolve ==
    /\ pc = "extract"
    /\ \E a \in AmountDecls, l \in LevelDecls, o \in OkDecls :
          policy = [variables |-> <<a, l, o>>, rules |-> << >>, constraints |-> << >>]
    /\ raw \in RawMaps({Absent, PyNone, PyInt(0)},
                       {Absent, PyNone, PyStr("high")},
                       {Absent, PyNone, PyBool(FALSE)},
                       {Absent, PyStr("x")})
    /\ extracted = << >>
    /\ tree = NoTree
    /\ parsed = NotParsed
    /\ z3_constraints = NoStorage
    /\ NotVerifying
    /\ NotCompiling

\* extract_variables, from the parsed JSON on: the resolver's result is returned
ExtractVariables ==
    /\ pc = "extract"
    /\ extracted' = ApplyDefaultValues(raw, policy.variables)
    /\ pc' = "extracted"
    /\ UNCHANGED <<inputs, parser, verifier, compiling, api>>

NextResolve == ExtractVariables
SpecResolve == InitResolve /\ [][NextResolve]_vars

(***************************************************************************)
(* verify_scenario applied to the resolver's result and a stored policy.   *)
(***************************************************************************)
AmountRule ==
    Rule("amount_rule", <<"too", "much">>, TAtom("amount", ">", PyInt(1)), "invalid")
LevelRule ==
    Rule("level_rule", <<"high", "needs", "nothing">>,
         TAnd(TAtom("level", "==", PyStr("high")), TAtom("amount", ">", PyInt(0))),
         "invalid")
OkRule ==
    Rule("ok_rule", <<"not", "approved">>, TAtom("ok", "==", PyBool(FALSE)), "invalid")
BasicRule ==
    Rule("basic_rule", <<"fine", "when", "ok">>, TAtom("amount", ">=", PyInt(1)), "valid")
RulePool == {AmountRule, LevelRule, OkRule, BasicRule}
\* the condition of each rule of the pool, as a tree
RuleTree(id) ==
    CASE id = "amount_rule" -> TAtom("amount", ">", PyInt(1))
      [] id = "level_rule" ->
           TAnd(TAtom("level", "==", PyStr("high")), TAtom("amount", ">", PyInt(0)))
      [] id = "ok_rule" -> TAtom("ok", "==", PyBool(FALSE))
      [] id = "noted_rule" -> TAtom("amount", ">", PyInt(1))
      [] id = "urgent_rule" -> TAtom("level", "==", PyStr("urgent"))
      [] OTHER -> TAtom("amount", ">=", PyInt(1))
RuleLists ==
    {rs \in UNION {[1..n -> RulePool] : n \in 0..MaxRules} :
        \A i, j \in 1..Len(rs) : rs[i] = rs[j] => i = j}
GlobalTree == TAtom("amount", ">=", PyInt(1))
\* a rule the compiler raises on: its condition mixes parentheses and AND
UncompilableRule ==
    Rule("mixed_rule", <<"mixed">>,
         TAnd(TOr(TAtom("amount", ">", PyInt(1)), TAtom("ok", "==", PyBool(FALSE))),
              TAtom("level", "==", PyStr("high"))),
         "invalid")

Init ==
    /\ pc = "extract"
    /\ \E m \in {"true", "false"}, l \in {"true", "false"},
          d \in {PyNone, PyStr("True")}, rs \in RuleLists :
          policy = [variables |-> <<Decl("amount", "number", << >>, m, PyNone),
                                    Decl("level", "enum", <<"low", "high">>, l, PyNone),
                                    Decl("ok", "boolean", << >>, "false", d)>>,
                    rules |-> rs,
                    constraints |-> <<Render(GlobalTree)>>]
    /\ raw \in RawMaps({PyNone, PyFloat2(3)} \cup {PyInt(n) : n \in 0..MaxInt},
                       {PyNone, PyStr("low"), PyStr("high"), PyStr("urgent")},
                       {PyNone, PyBool(FALSE), PyBool(TRUE)},
                       {Absent})
    /\ z3_constraints \in {[form |-> "pickled", original_policy |-> policy],
                           [form |-> "pickled",
                            original_policy |-> [policy EXCEPT !.rules = <<UncompilableRule>>]],
                           [form |-> "malformed", original_policy |-> NoPolicy]}
    /\ extracted = << >>
    /\ tree = NoTree
    /\ parsed = NotParsed
    /\ NotVerifying
    /\ NotCompiling

Event(op, rule, error) == [op |-> op, rule |-> rule, error |-> error]

\* lines 67-78: a Missing marker in the fact map ends verify_scenario
MandatoryGate ==
    /\ pc = "extracted"
    /\ MissingMandatory(extracted) # << >>
    /\ LET missing_mandatory == MissingMandatory(extracted)
       IN  outcome' =
             Outcome("needs_clarification", << >>, << >>,
                     Explanation("Missing required information for",
                                 [i \in 1..Len(missing_mandatory) |->
                                     [id |-> missing_mandatory[i], description |-> << >>]],
                                 ""),
                     GenerateMandatoryQuestions(missing_mandatory),
                     missing_mandatory)
    /\ pc' = "done"
    /\ UNCHANGED <<compiling, api, inputs, extracted, parser, z3_constraints, session, rule_index,
                   lists, solver_log>>

\* lines 80-82: what b64decode and pickle.loads raise on a stored text.  A
\* text that is no base64 fails in b64decode; the latin-1 text of a pickle
\* (src/app/api/compilation.py:35) is no base64 of a pickle: b64decode
\* drops the characters outside its alphabet and either rejects the rest or
\* yields bytes pickle.loads rejects.
DecodeFailures(form) ==
    CASE form = "malformed" -> {[op |-> "b64decode", error |-> "Incorrect padding"]}
      [] form = "latin1_pickle" -> {[op |-> "b64decode", error |-> "Incorrect padding"],
                                    [op |-> "loads", error |-> "invalid load key"]}
      [] OTHER -> {}

\* lines 80-159: decode and recompile the stored policy, split the fact map,
\* build the two solver sessions
LoadCompiledPolicy ==
    /\ pc = "extracted"
    /\ MissingMandatory(extracted) = << >>
    /\ IF DecodeFailures(z3_constraints.form) # {}
       THEN /\ \E failure \in DecodeFailures(z3_constraints.form) :
                 /\ solver_log' = IF failure.op = "loads"
                                  THEN <<Event("b64decode", "", ""),
                                         Event("loads", "", failure.error)>>
                                  ELSE <<Event("b64decode", "", failure.error)>>
                 /\ outcome' = ErrorOutcome(failure.error)
            /\ pc' = "done"
            /\ UNCHANGED <<session, rule_index>>
       ELSE LET compiled == ReconstructZ3Objects(z3_constraints)
                decoded == <<Event("b64decode", "", ""), Event("loads", "", ""),
                             Event("compile_policy", "", compiled.error)>>
            IN  IF compiled.error # ""
                THEN /\ solver_log' = decoded
                     /\ outcome' = ErrorOutcome(compiled.error)
                     /\ pc' = "done"
                     /\ UNCHANGED <<session, rule_index>>
                ELSE /\ solver_log' = decoded \o <<Event("Solver", "", ""),
                                                   Event("Solver", "", "")>>
                     /\ reconstructed_policy' = compiled
                     /\ effective_variables' = EffectiveVariables(extracted)
                     /\ skipped_variables' = SkippedVariables(extracted)
                     /\ all_constraints_solver' =
                           compiled.constraints \o
                           AssertVariables(EffectiveVariables(extracted), compiled.variables)
                     /\ rule_index' = 1
                     /\ pc' = "rules"
                     /\ UNCHANGED outcome
    /\ UNCHANGED <<compiling, api, inputs, extracted, parser, z3_constraints, lists>>

\* what the solver may raise on add or check of one rule's formula
SolverFaults ==
    {[error |-> "", by |-> "check"],
     [error |-> "sort mismatch", by |-> "add"],
     [error |-> "canceled", by |-> "check"]}
\* a test that takes every solver error for a sort mismatch
IsAnyError(message) == TRUE
\* "sort mismatch" in str(z3_error).lower()
IsSortMismatch(message) == message = "sort mismatch"
\* the calls of a loop that leaves the scope open when the solver raises
RuleCallsNoPopOnError(id, fault) ==
    <<Event("push", id, ""),
      Event("add", id, IF fault.by = "add" THEN fault.error ELSE "")>>
    \o (IF fault.by = "check" THEN <<Event("check", id, fault.error)>> ELSE << >>)
    \o (IF fault.error = "" THEN <<Event("pop", id, "")>> ELSE << >>)
\* lines 176-200: the calls made on the session for one rule
RuleCalls(id, fault) ==
    <<Event("push", id, ""),
      Event("add", id, IF fault.by = "add" THEN fault.error ELSE "")>>
    \o (IF fault.by = "check" THEN <<Event("check", id, fault.error)>> ELSE << >>)
    \o <<Event("pop", id, "")>>

\* lines 161-232: one turn of the loop over the compiled rules
EvaluateRule ==
    /\ pc = "rules"
    /\ rule_index <= Len(reconstructed_policy.rules)
    /\ LET compiled_rule == reconstructed_policy.rules[rule_index]
           condition_satisfied ==
               Sat(Append(all_constraints_solver, compiled_rule.constraint),
                   reconstructed_policy.variables)
       IN  IF RuleDependsOnVariables(compiled_rule, skipped_variables)
           THEN /\ skipped_rules' = Append(skipped_rules, compiled_rule)
                /\ rule_results' = Append(rule_results,
                       RuleResult(compiled_rule, "skipped", "unknown optional variables", ""))
                /\ rule_index' = rule_index + 1
                /\ pc' = "rules"
                /\ UNCHANGED <<failed_rules, applicable_rules, violated_rules,
                               supporting_rules, solver_log, outcome>>
           ELSE \E fault \in SolverFaults :
                /\ solver_log' = solver_log \o RuleCalls(compiled_rule.id, fault)
                /\ IF fault.error # "" /\ IsSortMismatch(fault.error)
                   THEN /\ skipped_rules' = Append(skipped_rules, compiled_rule)
                        /\ rule_results' = Append(rule_results,
                               RuleResult(compiled_rule, "skipped", "Z3 constraint error",
                                          fault.error))
                        /\ rule_index' = rule_index + 1
                        /\ pc' = "rules"
                        /\ UNCHANGED <<failed_rules, applicable_rules, violated_rules,
                                       supporting_rules, outcome>>
                   ELSE IF fault.error # ""
                   THEN /\ outcome' = ErrorOutcome(fault.error)
                        /\ pc' = "done"
                        /\ UNCHANGED <<rule_index, lists>>
                   ELSE /\ rule_index' = rule_index + 1
                        /\ pc' = "rules"
                        /\ UNCHANGED <<skipped_rules, outcome>>
                        /\ IF ~condition_satisfied
                           THEN /\ rule_results' = Append(rule_results,
                                       RuleResult(compiled_rule, "not_applicable",
                                                  "condition not satisfied", ""))
                                /\ UNCHANGED <<failed_rules, applicable_rules,
                                               violated_rules, supporting_rules>>
                           ELSE /\ applicable_rules' = Append(applicable_rules, compiled_rule)
                                /\ IF compiled_rule.conclusion = "valid"
                                   THEN /\ supporting_rules' =
                                              Append(supporting_rules, compiled_rule)
                                        /\ rule_results' = Append(rule_results,
                                              RuleResult(compiled_rule, "pass",
                                                         "supports validity", ""))
                                        /\ UNCHANGED <<violated_rules, failed_rules>>
                                   ELSE IF compiled_rule.conclusion = "invalid"
                                   THEN /\ violated_rules' =
                                              Append(violated_rules, compiled_rule)
                                        /\ failed_rules' = Append(failed_rules, compiled_rule)
                                        /\ rule_results' = Append(rule_results,
                                              RuleResult(compiled_rule, "fail",
                                                         "indicates invalidity", ""))
                                        /\ UNCHANGED supporting_rules
                                   ELSE UNCHANGED <<supporting_rules, violated_rules,
                                                    failed_rules, rule_results>>
    /\ UNCHANGED <<compiling, api, inputs, extracted, parser, z3_constraints, session>>

\* lines 234-274: the loop is over; aggregate and return
ReturnOutcome ==
    /\ pc = "rules"
    /\ rule_index > Len(reconstructed_policy.rules)
    /\ LET verdict == Verdict(effective_variables, violated_rules, supporting_rules,
                              skipped_rules, failed_rules)
       IN  outcome' =
             Outcome(verdict.result, rule_results,
                     [i \in 1..Len(failed_rules) |-> failed_rules[i].id],
                     WithRuleSummary(verdict.explanation, Len(reconstructed_policy.rules),
                                     applicable_rules, violated_rules, skipped_rules),
                     verdict.suggestions, << >>)
    /\ pc' = "done"
    /\ UNCHANGED <<compiling, api, inputs, extracted, parser, z3_constraints, session, rule_index,
                   lists, solver_log>>

Next ==
    \/ ExtractVariables
    \/ MandatoryGate
    \/ LoadCompiledPolicy
    \/ EvaluateRule
    \/ ReturnOutcome
Spec == Init /\ [][Next]_vars

(***************************************************************************)
(* verify_scenario called with a fact map that did not pass the resolver:  *)
(* by compile_and_verify, and by the context and clarification services    *)
(* with a stored compilation.                                              *)
(***************************************************************************)
\* a rule whose description names a variable its condition does not use
NotedRule ==
    Rule("noted_rule", <<"whatever", "the", "level">>, TAtom("amount", ">", PyInt(1)),
         "invalid")
\* a rule whose condition holds a quoted text that is also a variable's name
UrgentRule ==
    Rule("urgent_rule", <<"escalate">>, TAtom("level", "==", PyStr("urgent")), "invalid")
\* a rule with a conclusion other than valid and invalid
ReviewRule ==
    Rule("review_rule", <<"second", "look">>, TAtom("amount", ">=", PyInt(1)), "review")
DirectRuleLists ==
    {<<AmountRule>>, <<AmountRule, OkRule>>, <<BasicRule, AmountRule>>, <<LevelRule, BasicRule>>,
     <<NotedRule>>, <<UrgentRule>>, <<ReviewRule, AmountRule>>, <<UncompilableRule>>}
DirectVariables ==
    <<Decl("amount", "number", << >>, "true", PyNone),
      Decl("level", "enum", <<"low", "high">>, "true", PyNone),
      Decl("ok", "boolean", << >>, "true", PyNone),
      Decl("urgent", "boolean", << >>, "false", PyStr("false"))>>
\* the fact maps: a key may be absent, null, a value of the variable's type
\* or of another type, or one of the two marker texts
DirectFacts ==
    LET names == <<"amount", "level", "ok", "urgent">>
        values == [amount : {Absent, PyNone, PyInt(1), PyInt(2), PyStr("high"),
                             MISSING_MANDATORY, SKIP_RULE},
                   level : {Absent, PyStr("low"), PyStr("urgent"), MISSING_MANDATORY,
                            SKIP_RULE},
                   ok : {Absent, PyBool(FALSE), PyBool(TRUE), MISSING_MANDATORY, SKIP_RULE},
                   urgent : {Absent, PyBool(FALSE), MISSING_MANDATORY, SKIP_RULE}]
        present(f) == SelectSeq(names, LAMBDA name : f[name] # Absent)
    IN  {[i \in 1..Len(present(f)) |-> Item(present(f)[i], f[present(f)[i]])] : f \in values}

\* what the extractor's JSON may hold for a text variable: a value, or a
\* text equal to one of the markers
ExtractedTexts ==
    RawMaps({PyInt(2)}, {PyStr("low"), MISSING_MANDATORY, SKIP_RULE}, {PyBool(TRUE)}, {Absent})

\* a call with a fact map, or the verify endpoint's extraction before
\* verify_scenario on the stored compilation
InitDirect ==
    /\ \E rs \in DirectRuleLists :
          policy = [variables |-> DirectVariables, rules |-> rs,
                    constraints |-> <<Render(GlobalTree)>>]
    /\ \/ /\ pc = "call"
          /\ raw = << >>
          /\ extracted \in DirectFacts
          /\ z3_constraints = NoStorage
       \/ /\ pc = "extract"
          /\ raw \in ExtractedTexts
          /\ extracted = << >>
          /\ z3_constraints = [form |-> "pickled", original_policy |-> policy]
    /\ tree = NoTree
    /\ parsed = NotParsed
    /\ NotVerifying
    /\ NotCompiling

\* compile_and_verify, lines 433-446 and 452-460
CompileAndVerify ==
    /\ pc = "call"
    /\ LET compiled_policy == CompilePolicy(policy)
       IN  IF compiled_policy.error # ""
           THEN /\ outcome' = Outcome("ERROR", << >>, << >>,
                                      Explanation("Compilation or verification failed", << >>,
                                                  compiled_policy.error),
                                      << >>, << >>)
                /\ pc' = "done"
                /\ UNCHANGED z3_constraints
           ELSE /\ z3_constraints' = [form |-> "pickled", original_policy |-> policy]
                /\ pc' = "extracted"
                /\ UNCHANGED outcome
    /\ UNCHANGED <<compiling, api, inputs, extracted, parser, session, rule_index, lists,
                   solver_log>>

\* verify_with_context and verify_with_clarifying_responses: verify_scenario
\* on a stored compilation, which holds the original policy or not
VerifyStored ==
    /\ pc = "call"
    /\ z3_constraints' \in {[form |-> "pickled", original_policy |-> policy],
                            [form |-> "pickled", serializable_data |-> policy]}
    /\ pc' = "extracted"
    /\ UNCHANGED <<compiling, api, inputs, extracted, parser, session, rule_index, lists,
                   solver_log, outcome>>

\* api/verification.py, lines 79-90: the result is a text, never a member of
\* the enum of models/database.py, whose values are lower-case
ResultEnum(result_value) ==
    IF result_value \in {"valid", "invalid", "needs_clarification"} THEN result_value
    ELSE "error"
\* api/verification.py, batch_verify, lines 303-310
BatchResultEnum(result) ==
    CASE result = "valid" -> "valid"
      [] result = "invalid" -> "invalid"
      [] result = "needs_clarification" -> "needs_clarification"
      [] OTHER -> "error"

\* verify_policy, lines 76-121, and batch_verify, lines 302-332: the row
\* stored and the result returned for the outcome verify_scenario computed
RecordVerification ==
    /\ pc = "done"
    /\ raw # << >>
    /\ \E endpoint \in {"verify", "batch_verify"} :
          verifications' =
              Append(verifications,
                     [endpoint |-> endpoint, computed |-> outcome.result,
                      verification_result |-> IF endpoint = "verify"
                                              THEN ResultEnum(outcome.result)
                                              ELSE BatchResultEnum(outcome.result),
                      returned |-> IF endpoint = "verify"
                                   THEN ResultEnum(outcome.result)
                                   ELSE outcome.result])
    /\ pc' = "stored"
    /\ UNCHANGED <<inputs, extracted, parser, verifier, compiling, db_policy, db_compilations>>

NextDirect ==
    \/ ExtractVariables
    \/ CompileAndVerify
    \/ VerifyStored
    \/ MandatoryGate
    \/ LoadCompiledPolicy
    \/ EvaluateRule
    \/ ReturnOutcome
    \/ RecordVerification
SpecDirect == InitDirect /\ [][NextDirect]_vars

(***************************************************************************)
(* compile_policy called again and again, on the instance that is reused   *)
(* (as the module-level compiler of the compile endpoint is) or on a new   *)
(* instance.                                                               *)
(***************************************************************************)
RuleOf(id, description, condition, conclusion) ==
    [id |-> id, description |-> description, condition |-> condition,
     conclusion |-> conclusion]
NumberAndFlag ==
    <<Decl("amount", "number", << >>, "true", PyNone),
      Decl("ok", "boolean", << >>, "true", PyNone)>>
\* the vacation policy of the tests; its literals 14 and 5 and its two enum
\* values are written with literals of the model
VacationPolicy ==
    [variables |->
        <<Decl("advance_notice_days", "number", << >>, "absent", PyNone),
          Decl("vacation_duration_days", "number", << >>, "absent", PyNone),
          Decl("request_type", "enum", <<"low", "high">>, "absent", PyNone),
          Decl("has_manager_approval", "boolean", << >>, "absent", PyNone)>>,
     rules |->
        <<RuleOf("advance_notice_rule", <<"notice">>,
                 <<"request_type", "==", "'low'", "AND", "advance_notice_days", "<", "3">>,
                 "invalid"),
          RuleOf("manager_approval_rule", <<"approval">>,
                 <<"vacation_duration_days", ">", "2", "AND", "NOT",
                   "has_manager_approval">>,
                 "invalid"),
          RuleOf("emergency_exception_rule", <<"emergency">>,
                 <<"request_type", "==", "'high'">>, "valid")>>,
     constraints |-> <<<<"advance_notice_days", ">=", "0">>,
                       <<"vacation_duration_days", ">", "0">>>>]
PolicyPool ==
    [amounts |-> [variables |-> NumberAndFlag,
                  rules |-> <<AmountRule>>,
                  constraints |-> <<Render(GlobalTree)>>],
     stray |-> [variables |-> <<Decl("level", "enum", <<"low", "high">>, "true", PyNone)>>,
                rules |-> <<RuleOf("stray_rule", <<"stray">>, <<"amount", "!=", "0">>,
                                   "invalid")>>,
                constraints |-> << >>],
     flags |-> [variables |-> <<Decl("amount", "boolean", << >>, "true", PyNone)>>,
                rules |-> <<RuleOf("flag_rule", <<"flag">>, <<"amount", "==", "true">>,
                                   "valid")>>,
                constraints |-> << >>],
     custom |-> [variables |-> NumberAndFlag,
                 rules |-> <<RuleOf("custom_rule", <<"custom">>, <<"amount", ">", "1">>,
                                    "ok == true")>>,
                 constraints |-> << >>],
     maybe |-> [variables |-> NumberAndFlag,
                rules |-> <<RuleOf("maybe_rule", <<"maybe">>, <<"amount", ">", "1">>,
                                   "maybe")>>,
                constraints |-> << >>],
     vacation |-> VacationPolicy]
\* the instance a call is made on, and the class of a new instance
Instances == {"shared", "fresh", "fresh_new_prompt"}

InitCompile ==
    /\ pc = "compile"
    /\ policy = NoPolicy
    /\ raw = << >>
    /\ extracted = << >>
    /\ tree = NoTree
    /\ parsed = NotParsed
    /\ z3_constraints = NoStorage
    /\ NotVerifying
    /\ NotCompiling

\* one compile_policy call
CompilePolicyCall ==
    /\ pc = "compile"
    /\ Len(compile_calls) < MaxCalls
    /\ \E name \in DOMAIN PolicyPool, on \in Instances :
          LET self == IF on = "shared" THEN shared_compiler ELSE NewCompiler
              call == CompilePolicyOn(self, PolicyPool[name], on = "fresh_new_prompt")
          IN  /\ shared_compiler' = IF on = "shared" THEN call.self ELSE shared_compiler
              /\ compile_calls' =
                    Append(compile_calls,
                           [policy |-> name, on |-> on, error |-> call.result.error,
                            variables |-> call.result.variables,
                            rules |-> call.result.rules,
                            constraints |-> call.result.constraints])
    /\ UNCHANGED <<pc, inputs, extracted, parser, verifier, api>>

NextCompile == CompilePolicyCall
SpecCompile == InitCompile /\ [][NextCompile]_vars

\* the variables map of a returned compiled policy: it is the z3_vars dict
\* of the instance the call was made on, not a copy
VariablesOf(call) ==
    IF call.on = "shared" THEN shared_compiler.z3_vars ELSE call.variables

(***************************************************************************)
(* The endpoints on one policy row: update, fix-missing-variables, compile *)
(* and verify.                                                             *)
(***************************************************************************)
ApiPolicies == {"amounts", "stray"}
Content(row) ==
    [variables |-> row.variables, rules |-> row.rules, constraints |-> row.constraints]
PolicyRow(content, status) ==
    [variables |-> content.variables, rules |-> content.rules,
     constraints |-> content.constraints, status |-> status]
\* the answers of the extractor: every variable found, or only ok
ApiFacts ==
    {[amount |-> PyInt(2), level |-> PyStr("low"), ok |-> PyBool(TRUE)],
     [ok |-> PyBool(TRUE)]}

\* policy_validation.py, extract_variables_from_rules: the words of the rule
\* conditions that are no keyword and no number, the words inside quotes
\* included
ExtractVariablesFromRules(rules) ==
    LET words(condition) ==
            {IF condition[i] \in QuotedLiterals THEN Unquote(condition[i]) ELSE condition[i] :
                i \in 1..Len(condition)}
        excluded == {"AND", "OR", "NOT", "and", "or", "not", "true", "false", "TRUE", "FALSE",
                     "(", ")"}
                    \cup {Operators[i] : i \in 1..Len(Operators)}
                    \cup {IntLiterals[i] : i \in 1..Len(IntLiterals)} \cup RealLiterals
    IN  UNION {words(rules[i].condition) : i \in 1..Len(rules)} \ excluded
\* policy_validation.py, infer_variable_type_and_description, on the names of
\* the policies here
InferVariableType(var_name) ==
    CASE var_name = "has_manager_approval" -> "boolean"
      [] var_name \in {"advance_notice_days", "vacation_duration_days"} -> "number"
      [] var_name = "request_type" -> "enum"
      [] OTHER -> "string"
RECURSIVE NewVariables(_)
NewVariables(names) ==
    IF names = {} THEN << >>
    ELSE LET var_name == CHOOSE n \in names : TRUE
         IN  <<Decl(var_name, InferVariableType(var_name),
                    IF InferVariableType(var_name) = "boolean" THEN <<"true", "false">> ELSE << >>,
                    "absent", PyNone)>>
             \o NewVariables(names \ {var_name})
\* the rows with compilation_status SUCCESS, oldest first
Successful(compilations) == SelectSeq(compilations, LAMBDA row : row.status = "success")

InitApi ==
    /\ pc = "api"
    /\ policy = NoPolicy
    /\ raw = << >>
    /\ extracted = << >>
    /\ tree = NoTree
    /\ parsed = NotParsed
    /\ z3_constraints = NoStorage
    /\ NotVerifying
    /\ shared_compiler = NewCompiler
    /\ compile_calls = << >>
    /\ \E name \in ApiPolicies : db_policy = PolicyRow(PolicyPool[name], "draft")
    /\ db_compilations = << >>
    /\ verifications = << >>

\* api/policies.py, update_policy with new variables, rules and constraints
UpdatePolicy ==
    /\ pc = "api"
    /\ \E name \in ApiPolicies : db_policy' = PolicyRow(PolicyPool[name], "draft")
    /\ UNCHANGED <<pc, inputs, extracted, parser, verifier, compiling, db_compilations,
                   verifications>>

\* api/policy_validation.py, fix_missing_variables with auto_add
FixMissingVariables ==
    /\ pc = "api"
    /\ LET defined_vars == {db_policy.variables[i].name : i \in 1..Len(db_policy.variables)}
           missing_vars == ExtractVariablesFromRules(db_policy.rules) \ defined_vars
       IN  /\ missing_vars # {}
           /\ db_policy' = [db_policy EXCEPT
                               !.variables = db_policy.variables \o NewVariables(missing_vars)]
    /\ UNCHANGED <<pc, inputs, extracted, parser, verifier, compiling, db_compilations,
                   verifications>>

\* api/compilation.py, compile_policy on the module's compiler.  Whether
\* pickle.dumps takes the compiled result depends on the objects in it; each
\* row keeps the policy content it was compiled from.
CompileEndpoint ==
    /\ pc = "api"
    /\ Len(db_compilations) + Len(verifications) < MaxCalls
    /\ LET call == CompilePolicyOn(shared_compiler, Content(db_policy), FALSE)
       IN  /\ shared_compiler' = call.self
           /\ \E pickles \in BOOLEAN :
                 IF call.result.error = "" /\ pickles
                 THEN /\ db_compilations' =
                            Append(db_compilations,
                                   [policy |-> Content(db_policy), status |-> "success",
                                    z3_constraints |-> [form |-> "latin1_pickle",
                                                        original_policy |-> NoPolicy]])
                      /\ db_policy' = [db_policy EXCEPT !.status = "compiled"]
                 ELSE /\ db_compilations' =
                            Append(db_compilations,
                                   [policy |-> Content(db_policy), status |-> "error",
                                    z3_constraints |-> NoStorage])
                      /\ UNCHANGED db_policy
    /\ UNCHANGED <<pc, inputs, extracted, parser, verifier, compile_calls, verifications>>

\* api/verification.py, verify_policy, lines 29-57: the latest successful
\* compilation and the policy's variables as they are now
VerifyPolicy ==
    /\ pc = "api"
    /\ Len(db_compilations) + Len(verifications) < MaxCalls
    /\ Successful(db_compilations) # << >>
    /\ LET latest_compilation ==
               Successful(db_compilations)[Len(Successful(db_compilations))]
       IN  z3_constraints' = latest_compilation.z3_constraints
    /\ policy' = Content(db_policy)
    /\ raw' \in ApiFacts
    /\ pc' = "extract"
    /\ UNCHANGED <<extracted, parser, session, rule_index, lists, solver_log, outcome,
                   compiling, api>>

\* api/verification.py, verify_policy, lines 76-121: the stored verification,
\* with the content of the policy and of the compilation it was made with
StoreVerification ==
    /\ pc = "done"
    /\ LET latest_compilation ==
               Successful(db_compilations)[Len(Successful(db_compilations))]
       IN  verifications' =
               Append(verifications,
                      [policy |-> policy, compiled_from |-> latest_compilation.policy,
                       extracted_variables |-> extracted,
                       verification_result |-> ResultEnum(outcome.result)])
    /\ pc' = "api"
    /\ policy' = NoPolicy
    /\ raw' = << >>
    /\ extracted' = << >>
    /\ z3_constraints' = NoStorage
    /\ solver_log' = << >>
    /\ outcome' = NoOutcome
    /\ UNCHANGED <<parser, session, rule_index, lists, compiling, db_policy, db_compilations>>

NextApi ==
    \/ UpdatePolicy
    \/ FixMissingVariables
    \/ CompileEndpoint
    \/ VerifyPolicy
    \/ ExtractVariables
    \/ MandatoryGate
    \/ LoadCompiledPolicy
    \/ StoreVerification
SpecApi == InitApi /\ [][NextApi]_vars

(***************************************************************************)
(* Properties.                                                             *)
(***************************************************************************)
\* the compiled formula and the condition agree under all facts
ParsedAsWritten ==
    /\ ~IsError(parsed)
    /\ \A facts \in ParseFacts : Holds(parsed, facts) = RefHolds(tree, facts)

\* C6: every condition with explicit parentheses compiles to a formula
\* equivalent to the condition read with each parenthesised sub-expression
\* as one unit, e.g. (a OR b) AND c as And(Or(a, b), c) and NOT (a AND b)
\* as Not(And(a, b)).
C6_ParenthesesHonored ==
    (pc = "parsed" /\ HasParens(tree)) => ParsedAsWritten

\* C7: every condition without parentheses compiles to a formula equivalent
\* to its reading with NOT binding tightest, then AND, then OR.
C7_PrecedenceWithoutParentheses ==
    (pc = "parsed" /\ ~HasParens(tree)) => ParsedAsWritten

\* a OR b AND c has been compiled to Or(a, And(b, c))
C7_Witness ==
    /\ pc = "parsed"
    /\ ~HasParens(tree)
    /\ tree.k = "or" /\ tree.kids[2].k = "and"
    /\ parsed.k = "or" /\ parsed.args[2].k = "and"

\* what the resolver is to return for one declared variable
NonNull(map, name) == name \in DOMAIN map /\ map[name] # PyNone
TypedDefault(decl, value) ==
    CASE decl.type = "boolean" ->
           value = PyBool(decl.default_value.s \in {"true", "True", "TRUE"})
      [] decl.type = "number" ->
           value.t \in {"int", "float"} /\ LitToken(value) = decl.default_value.s
      [] OTHER -> value = decl.default_value
EntryAsSpecified(decl, value) ==
    IF NonNull(raw, decl.name) THEN value = raw[decl.name]
    ELSE IF decl.default_value # PyNone THEN TypedDefault(decl, value)
    ELSE IF decl.is_mandatory \in {"true", "absent"} THEN value = MISSING_MANDATORY
    ELSE value = SKIP_RULE
\* the raw map with every absent declared key given as an explicit null
NullFilled ==
    [k \in DOMAIN raw \cup {policy.variables[i].name : i \in 1..Len(policy.variables)} |->
        Get(raw, k)]

\* C4: the resolver returns exactly one entry per declared variable, in
\* declaration order, nothing for undeclared keys; the entry is the non-null
\* raw value, else the coerced default, else Missing for a mandatory and
\* Skipped for an optional variable; an absent key and a null give the same
\* result; Missing arises only for mandatory, Skipped only for optional
\* variables.
C4_ResolverEntries ==
    pc = "extracted" =>
        /\ Len(extracted) = Len(policy.variables)
        /\ \A i \in 1..Len(extracted) :
              /\ extracted[i].name = policy.variables[i].name
              /\ EntryAsSpecified(policy.variables[i], extracted[i].value)
              /\ (~NonNull(raw, extracted[i].name) /\ extracted[i].value = MISSING_MANDATORY)
                    => policy.variables[i].is_mandatory # "false"
              /\ (~NonNull(raw, extracted[i].name) /\ extracted[i].value = SKIP_RULE)
                    => policy.variables[i].is_mandatory = "false"
        /\ extracted = ApplyDefaultValues(NullFilled, policy.variables)

\* a zero raw value was kept, a default was coerced, one variable is Missing,
\* an undeclared key was dropped
C4_Witness ==
    /\ pc = "extracted"
    /\ "note" \in DOMAIN raw
    /\ Get(raw, "amount") = PyInt(0) /\ extracted[1].value = PyInt(0)
    /\ "level" \notin DOMAIN raw /\ extracted[2].value = MISSING_MANDATORY
    /\ Get(raw, "ok") = PyNone /\ "ok" \in DOMAIN raw
    /\ policy.variables[3].default_value = PyStr("True")
    /\ policy.variables[3].is_mandatory = "true"
    /\ extracted[3].value = PyBool(TRUE)

(***************************************************************************)
(* Properties of verify_scenario.  They read the fact map, the policy and  *)
(* the returned outcome directly.                                          *)
(***************************************************************************)
HasMissing == \E i \in 1..Len(extracted) : extracted[i].value = MISSING_MANDATORY
SkippedNames ==
    {extracted[i].name : i \in {j \in 1..Len(extracted) : extracted[j].value = SKIP_RULE}}
ResolvedNames ==
    {extracted[i].name :
        i \in {j \in 1..Len(extracted) :
                  extracted[j].value \notin {MISSING_MANDATORY, SKIP_RULE, PyNone}}}
Facts == [name \in ResolvedNames |-> Lookup(extracted, name)]
NeedsClarification(result) == result \in {"needs_clarification", "NEEDS_CLARIFICATION"}
Returned == pc = "done" /\ ~HasMissing /\ outcome.result # "ERROR"
ResultsWith(results, kind) == SelectSeq(results, LAMBDA r : r.result = kind)
IdsOf(results) == [i \in 1..Len(results) |-> results[i].rule_id]
RangeOf(seq) == {seq[i] : i \in 1..Len(seq)}
PolicyRule(id) == policy.rules[CHOOSE i \in 1..Len(policy.rules) : policy.rules[i].id = id]

\* C1: whenever a variable of the fact map is Missing, verify_scenario
\* returns NeedsClarification with empty rule_results, whatever the rules,
\* the other values and the stored policy are; the stored policy is not
\* decoded, no solver session is created and no rule is evaluated.
C1_MandatoryGate ==
    (HasMissing /\ pc \notin {"extract", "extracted"}) =>
        /\ pc = "done"
        /\ NeedsClarification(outcome.result)
        /\ outcome.rule_results = << >>
        /\ solver_log = << >>
        /\ reconstructed_policy = NotCompiled
        /\ rule_index = 0 /\ rule_results = << >>

\* the gate closed on a malformed stored policy, with rules in the policy
\* and another variable resolved
C1_Witness ==
    /\ pc = "done" /\ HasMissing
    /\ z3_constraints.form = "malformed"
    /\ policy.rules # << >>
    /\ ResolvedNames # {}
    /\ outcome.result = "needs_clarification"

StatusByOrder(results) ==
    IF ResolvedNames = {} THEN "NEEDS_CLARIFICATION"
    ELSE IF ResultsWith(results, "fail") # << >> THEN "INVALID"
    ELSE IF ResultsWith(results, "pass") # << >> THEN "VALID"
    ELSE IF ResultsWith(results, "skipped") # << >> THEN "VALID"
    ELSE "NEEDS_CLARIFICATION"

PassedRules == {policy.rules[i].id : i \in {j \in 1..Len(policy.rules) : j < rule_index}}
NamesSkipped(id) == TreeVars(RuleTree(id)) \cap SkippedNames # {}

FactsSatisfyConstraints ==
    TreeVars(GlobalTree) \subseteq ResolvedNames => RefHolds(GlobalTree, Facts)
ConditionTrue(id) == RefHolds(RuleTree(id), Facts)

\* C5: for a rule that is not skipped, all of whose variables are resolved,
\* under facts that satisfy the global constraints: fail iff the conclusion
\* is invalid and the condition is true under the facts, pass iff the
\* conclusion is valid and the condition is true, not_applicable iff the
\* condition is false.
C5_ClassificationAgrees ==
    (Returned /\ FactsSatisfyConstraints) =>
        \A r \in RangeOf(outcome.rule_results) :
            (r.result # "skipped" /\ TreeVars(RuleTree(r.rule_id)) \subseteq ResolvedNames) =>
                /\ r.result = "fail" <=>
                      (PolicyRule(r.rule_id).conclusion = "invalid" /\ ConditionTrue(r.rule_id))
                /\ r.result = "pass" <=>
                      (PolicyRule(r.rule_id).conclusion = "valid" /\ ConditionTrue(r.rule_id))
                /\ r.result = "not_applicable" <=> ~ConditionTrue(r.rule_id)

FailedIds == IdsOf(ResultsWith(outcome.rule_results, "fail"))
InPolicyOrder(ids) ==
    LET violated == SelectSeq(policy.rules, LAMBDA rule : rule.id \in RangeOf(ids))
    IN  ids = [i \in 1..Len(violated) |-> violated[i].id]

\* C8: when the status is Invalid, failed_rules holds exactly the ids of the
\* rules classified fail, each once and in the order of the policy's rules,
\* and the explanation has one line per such rule with its id and its
\* description.
C8_FailedRulesAndExplanation ==
    (pc = "done" /\ outcome.result = "INVALID") =>
        /\ outcome.failed_rules = FailedIds
        /\ InPolicyOrder(outcome.failed_rules)
        /\ outcome.explanation.items =
              [i \in 1..Len(FailedIds) |->
                  [id |-> FailedIds[i], description |-> PolicyRule(FailedIds[i]).description]]

\* Invalid was returned for two violated rules
C8_Witness ==
    /\ pc = "done" /\ outcome.result = "INVALID"
    /\ Len(outcome.failed_rules) = MaxRules
    /\ Len(outcome.explanation.items) = MaxRules

\* the enum variables resolved to a value that is not one of possible_values
OutOfDomain ==
    {policy.variables[i].name :
        i \in {j \in 1..Len(policy.variables) :
                  /\ policy.variables[j].type = "enum"
                  /\ policy.variables[j].name \in ResolvedNames
                  /\ Facts[policy.variables[j].name].s \notin
                        RangeOf(policy.variables[j].possible_values)}}

\* C9: when an enum variable is resolved to a value outside its
\* possible_values, the enum-domain formulas are asserted in the session
\* with the global constraints and the outcome shows the violation: status
\* Error or a domain-violation classification.
C9_EnumDomainSurfaced ==
    (pc = "done" /\ ~HasMissing /\ z3_constraints.form = "pickled" /\ OutOfDomain # {}) =>
        /\ RangeOf(EnumConstraints(policy.variables)) \subseteq RangeOf(all_constraints_solver)
        /\ \/ outcome.result = "ERROR"
           \/ \E r \in RangeOf(outcome.rule_results) : r.result = "domain_violation"

\* the solver errors raised so far, each with the rule it was raised for
RaisedErrors == {e \in RangeOf(solver_log) : e.rule # "" /\ e.error # ""}
SkippedFor(e) ==
    \E r \in RangeOf(rule_results) :
        r.rule_id = e.rule /\ r.result = "skipped" /\ r.error = e.error

\* C10: an error raised by the solver while asserting or checking one rule's
\* formula never aborts the verification: the rule is classified skipped
\* with the error as its reason, every later rule is still evaluated and the
\* status is not Error.
C10_SolverErrorNeverAborts ==
    \A e \in RaisedErrors :
        /\ SkippedFor(e)
        /\ pc = "done" =>
              /\ outcome.result # "ERROR"
              /\ Len(outcome.rule_results) = Len(policy.rules)

\* C10, as the code has it: a solver error whose message contains "sort
\* mismatch" skips the rule it was raised for, with the error as the reason,
\* and the loop goes on: if no other error follows, every rule has a result
\* and the status is not Error.  Any other solver error ends the
\* verification with status Error, no rule results and the error in the
\* explanation.
C10_SortMismatchIsolated ==
    \A e \in RaisedErrors :
        IF e.error = "sort mismatch"
        THEN /\ SkippedFor(e)
             /\ (pc = "done" /\ \A f \in RaisedErrors : f.error = "sort mismatch") =>
                   /\ outcome.result # "ERROR"
                   /\ Len(outcome.rule_results) = Len(policy.rules)
                   /\ \E r \in RangeOf(outcome.rule_results) :
                         r.rule_id = e.rule /\ r.result = "skipped" /\ r.error = e.error
        ELSE /\ pc = "done"
             /\ outcome.result = "ERROR"
             /\ outcome.rule_results = << >>
             /\ outcome.explanation.detail = e.error

\* a sort mismatch on the first rule, the second rule decided, no Error
C10_Witness ==
    /\ pc = "done" /\ outcome.result # "ERROR"
    /\ Len(policy.rules) = MaxRules
    /\ \E e \in RaisedErrors : e.rule = policy.rules[1].id /\ e.error = "sort mismatch"
    /\ outcome.rule_results[1].result = "skipped"
    /\ outcome.rule_results[Len(policy.rules)].result \in {"fail", "pass", "not_applicable"}

\* the failures recorded in the log: every error but a recovered sort mismatch
Failures == {e \in RangeOf(solver_log) : e.error \notin {"", "sort mismatch"}}
CallsLike(e) == SelectSeq(solver_log, LAMBDA f : f.op = e.op /\ f.rule = e.rule)

\* C11: verify_scenario always returns an outcome; when no variable is
\* Missing, an exception while decoding or recompiling the stored policy, or
\* any other failure that is not recovered, gives status Error with empty
\* rule_results and failed_rules and the exception's message in the
\* explanation; the failing call is made once and nothing is called after it.
C11_FailuresBecomeError ==
    /\ pc = "done" =>
          outcome.result \in {"needs_clarification", "NEEDS_CLARIFICATION", "VALID",
                              "INVALID", "ERROR"}
    /\ \A e \in Failures :
          /\ ~HasMissing
          /\ pc = "done"
          /\ outcome.result = "ERROR"
          /\ outcome.rule_results = << >>
          /\ outcome.failed_rules = << >>
          /\ outcome.explanation.detail = e.error
          /\ Len(CallsLike(e)) = 1
          /\ \A i \in 1..Len(solver_log) :
                solver_log[i].error \notin {"", "sort mismatch"} =>
                    \A j \in (i + 1)..Len(solver_log) : solver_log[j].op = "pop"
    /\ (pc = "done" /\ outcome.result = "ERROR") => Failures # {}

\* the stored policy was decoded and its recompilation raised
C11_Witness ==
    /\ pc = "done" /\ outcome.result = "ERROR"
    /\ \E e \in Failures : e.op = "compile_policy"
    /\ ResolvedNames # {}

\* the scope depth after the first n calls of the log
RECURSIVE Depth(_)
Depth(n) ==
    IF n = 0 THEN 0
    ELSE Depth(n - 1) + (CASE solver_log[n].op = "push" -> 1
                           [] solver_log[n].op = "pop" -> 0 - 1
                           [] OTHER -> 0)
SkippedUnasked ==
    {r.rule_id : r \in {x \in RangeOf(rule_results) :
                           x.result = "skipped" /\ x.reason = "unknown optional variables"}}

\* C12: in the rule loop every push is matched by one pop on every path:
\* the scope depth is 0 before each rule and when the loop is left, it is
\* never negative and never above 1, and a rule skipped for a Skipped
\* variable makes no push.
C12_PushPopNested ==
    /\ Depth(Len(solver_log)) = 0
    /\ \A n \in 0..Len(solver_log) : Depth(n) \in {0, 1}
    /\ \A e \in RangeOf(solver_log) :
          e.rule # "" =>
              /\ Len(SelectSeq(solver_log, LAMBDA f : f.rule = e.rule /\ f.op = "push")) = 1
              /\ Len(SelectSeq(solver_log, LAMBDA f : f.rule = e.rule /\ f.op = "pop")) = 1
              /\ e.rule \notin SkippedUnasked

\* a re-raised solver error after a rule that was decided and one skipped rule
C12_Witness ==
    /\ pc = "done" /\ outcome.result = "ERROR"
    /\ \E e \in RangeOf(solver_log) : e.op = "check" /\ e.error = "canceled"
    /\ \E e \in RangeOf(solver_log) : e.op = "check" /\ e.error = ""
    /\ Depth(Len(solver_log)) = 0

(***************************************************************************)
(* Properties of compile_policy.                                           *)
(***************************************************************************)
\* the identifiers of a condition: its tokens that are no literal, operator,
\* keyword or parenthesis
Identifiers(toks) ==
    {toks[i] : i \in 1..Len(toks)} \
        (QuotedLiterals \cup RealLiterals \cup RangeOf(IntLiterals) \cup RangeOf(Operators)
         \cup {"AND", "OR", "NOT", "(", ")", "true", "false", "True", "False"})
ConditionsOf(p) ==
    {p.rules[i].condition : i \in 1..Len(p.rules)} \cup RangeOf(p.constraints)
Declared(p) == {p.variables[i].name : i \in 1..Len(p.variables)}
Undeclared(p) == UNION {Identifiers(c) : c \in ConditionsOf(p)} \ Declared(p)
Calls == RangeOf(compile_calls)

\* C13: compile_policy raises on every policy with a rule or constraint
\* whose condition names an identifier the policy does not declare, whatever
\* was compiled before on the same instance.
C13_UndeclaredRejected ==
    \A c \in Calls : Undeclared(PolicyPool[c.policy]) # {} => c.error # ""

\* C14: compile_policy rejects every rule whose conclusion is neither valid
\* nor invalid with an invalid-conclusion error, without parsing the
\* conclusion as a condition.
C14_InvalidConclusionRejected ==
    \A c \in Calls :
        (\E r \in RangeOf(PolicyPool[c.policy].rules) : r.conclusion \notin {"valid", "invalid"})
            => c.error = "Invalid conclusion"

\* the symbols of a returned compiled policy that a condition names
SymbolsIn(c, condition) ==
    [name \in Identifiers(condition) \cap DOMAIN c.variables |-> c.variables[name]]

\* C15: the formula compiled for a rule with conclusion invalid is the
\* formula of its condition, not its negation: under every interpretation
\* it is true exactly when the condition is.
C15_NotPreNegated ==
    \A c \in Calls :
        c.error = "" =>
            \A i \in 1..Len(c.rules) :
                LET rule == PolicyPool[c.policy].rules[i]
                    symbols == SymbolsIn(c, rule.condition)
                IN  rule.conclusion = "invalid" =>
                        \A env \in Interpretations(symbols) :
                            Holds(c.rules[i].constraint, env)
                                = Holds(ParseCondition(rule.condition, symbols), env)

\* C16: the variables map, the rules and the constraints of a compiled
\* policy stay as they were returned, whatever is compiled afterwards.
C16_CompiledPolicyImmutable ==
    \A c \in Calls : c.error = "" => VariablesOf(c) = c.variables

(***************************************************************************)
(* Properties of the endpoints.                                            *)
(***************************************************************************)
\* C17: every verification is evaluated against a compilation made from the
\* variables, rules and constraints the policy has when it is verified.
C17_VerifiesCurrentPolicy ==
    \A i \in 1..Len(verifications) :
        verifications[i].compiled_from = verifications[i].policy

\* C18: the text the compile endpoint stores is accepted by verify_scenario:
\* neither b64decode nor pickle.loads raises on it.
C18_StoredFormReloads ==
    \A i \in 1..Len(solver_log) :
        solver_log[i].op \in {"b64decode", "loads"} => solver_log[i].error = ""

(***************************************************************************)
(* Properties of repeated compilation.                                     *)
(***************************************************************************)
\* the symbols a returned compiled policy has for the identifiers of its policy
SymbolsOf(c) ==
    LET p == PolicyPool[c.policy]
    IN  [name \in (Declared(p) \cup Undeclared(p)) \cap DOMAIN c.variables |-> c.variables[name]]
Equivalent(c, d) ==
    /\ SymbolsOf(c) = SymbolsOf(d)
    /\ Len(c.rules) = Len(d.rules)
    /\ Len(c.constraints) = Len(d.constraints)
    /\ \A env \in Interpretations(SymbolsOf(c)) :
          /\ \A k \in 1..Len(c.rules) :
                Holds(c.rules[k].constraint, env) = Holds(d.rules[k].constraint, env)
          /\ \A k \in 1..Len(c.constraints) :
                Holds(c.constraints[k], env) = Holds(d.constraints[k], env)

\* C19: two compile_policy calls on the same policy, on a new instance or
\* on the shared one, with anything compiled in between, both return a
\* compiled policy or both raise, and two returned compiled policies give
\* every rule formula and every constraint the same truth value under every
\* assignment.
C19_CompileIdempotent ==
    \A c, d \in Calls :
        (c.policy = d.policy /\ c.on # "fresh_new_prompt" /\ d.on # "fresh_new_prompt")
            => /\ (c.error = "") = (d.error = "")
               /\ (c.error = "" /\ d.error = "") => Equivalent(c, d)

\* C20: the vacation policy compiles, with its 4 variables, 3 rules and 2
\* constraints, and the formula of manager_approval_rule depends on the
\* assignment exactly as `vacation_duration_days > 2 AND NOT
\* has_manager_approval` does (as the condition or as its negation).
C20_BareBooleanAtom ==
    \A c \in Calls :
        c.policy = "vacation" =>
            /\ c.error = ""
            /\ Declared(VacationPolicy) \subseteq DOMAIN c.variables
            /\ Cardinality(Declared(VacationPolicy)) = 4
            /\ Len(c.rules) = 3
            /\ Len(c.constraints) = 2
            /\ LET rule == CHOOSE r \in RangeOf(c.rules) : r.id = "manager_approval_rule"
                   symbols == [name \in {"vacation_duration_days", "has_manager_approval"} |->
                                  c.variables[name]]
                   wanted(env) == /\ env["vacation_duration_days"].n > 2
                                  /\ env["has_manager_approval"] = PyBool(FALSE)
               IN  \/ \A env \in Interpretations(symbols) :
                         Holds(rule.constraint, env) = wanted(env)
                   \/ \A env \in Interpretations(symbols) :
                         Holds(rule.constraint, env) = ~wanted(env)

(***************************************************************************)
(* Properties of verify_scenario on fact maps given by its callers.        *)
(***************************************************************************)
\* the policy compiled and was stored with the original policy; no solver
\* call raised
Recompiled ==
    /\ z3_constraints.form = "pickled"
    /\ "original_policy" \in DOMAIN z3_constraints
    /\ outcome.explanation.text # "Compilation or verification failed"
NoFault == \A i \in 1..Len(solver_log) : solver_log[i].error = ""
\* every variable of the policy has a value of its type
FullyResolved ==
    /\ ResolvedNames = {policy.variables[i].name : i \in 1..Len(policy.variables)}
    /\ \A i \in 1..Len(policy.variables) :
          Facts[policy.variables[i].name].t =
              (CASE policy.variables[i].type = "number" -> "int"
                 [] policy.variables[i].type = "boolean" -> "bool"
                 [] OTHER -> "str")
AllInvalid ==
    /\ policy.rules # << >>
    /\ \A i \in 1..Len(policy.rules) : policy.rules[i].conclusion = "invalid"

MissingInOrder ==
    LET marked == SelectSeq(extracted, LAMBDA it : it.value = MISSING_MANDATORY)
    IN  [i \in 1..Len(marked) |-> marked[i].name]

\* C22: an outcome of the mandatory gate names every Missing variable and
\* carries one question per Missing variable, in the same order, however
\* many variables are Missing.
C22_OneQuestionPerMissing ==
    (pc = "done" /\ HasMissing /\ z3_constraints.form = "pickled")
        => /\ outcome.missing_mandatory_vars = MissingInOrder
           /\ Len(outcome.suggestions) = Len(MissingInOrder)
           /\ \A i \in 1..Len(MissingInOrder) :
                 outcome.suggestions[i].about = <<MissingInOrder[i]>>

\* the rule has the result given for unknown optional variables
SkippedAsOptional(id) ==
    \E r \in RangeOf(rule_results) :
        r.rule_id = id /\ r.result = "skipped" /\ r.reason = "unknown optional variables"

\* C23: a rule is skipped for unresolved optional variables exactly when
\* its condition references a Skipped variable, whatever its description
\* and its quoted texts say and whichever rule record was loaded.
C23_SkippedIffReferenced ==
    pc \in {"rules", "done"} =>
        \A id \in PassedRules : SkippedAsOptional(id) <=> NamesSkipped(id)

\* a value of the fact map whose equality with its symbol cannot be built
FailedAssertions ==
    {effective_variables[i].name :
        i \in {j \in 1..Len(effective_variables) :
                  /\ effective_variables[j].name \in DOMAIN reconstructed_policy.variables
                  /\ IsError(MkCompare("==",
                                       VarNode(effective_variables[j].name,
                                               reconstructed_policy.variables[
                                                   effective_variables[j].name]),
                                       ConstNode(effective_variables[j].value)))}}
\* the outcome mentions an error: as its status, in its explanation or in
\* the reason of a rule
MentionsError ==
    \/ outcome.result = "ERROR"
    \/ outcome.explanation.detail # ""
    \/ \E r \in RangeOf(outcome.rule_results) : r.error # ""

\* C24: when asserting the value of a Resolved variable fails, the returned
\* outcome records the failure.
C24_AssertionFailureRecorded ==
    (pc = "done" /\ reconstructed_policy # NotCompiled /\ FailedAssertions # {})
        => MentionsError

\* the variables the extractor's JSON gave a non-null value
Supplied == {name \in DOMAIN raw : raw[name] # PyNone}

\* C25: a variable the fact map gives a non-null value is Resolved to that
\* value: it is kept by the resolver, never listed as Missing by the gate
\* and never among the variables rules are skipped for.
C25_SuppliedValueIsResolved ==
    /\ pc # "extract" =>
          \A i \in 1..Len(extracted) :
              extracted[i].name \in Supplied => extracted[i].value = raw[extracted[i].name]
    /\ pc = "done" => RangeOf(outcome.missing_mandatory_vars) \cap Supplied = {}
    /\ RangeOf(skipped_variables) \cap Supplied = {}

(***************************************************************************)
(* Properties of the returned outcome.                                     *)
(***************************************************************************)
\* verify_scenario returned from its aggregation
Aggregated ==
    /\ pc \in {"done", "stored"}
    /\ ~HasMissing
    /\ reconstructed_policy # NotCompiled
    /\ outcome.result # "ERROR"
CountOf(kinds) == Len(SelectSeq(outcome.rule_results, LAMBDA r : r.result \in kinds))

\* C26: an outcome of the aggregation has one rule result per rule of the
\* compiled policy, in rule order, each pass, fail, not_applicable or skipped.
C26_OneResultPerRule ==
    Aggregated =>
        /\ IdsOf(outcome.rule_results) =
               [i \in 1..Len(reconstructed_policy.rules) |-> reconstructed_policy.rules[i].id]
        /\ \A r \in RangeOf(outcome.rule_results) :
               r.result \in {"pass", "fail", "not_applicable", "skipped"}

\* C27: the violated-rule list of a returned outcome is non-empty exactly
\* when the status is Invalid.
C27_FailedRulesIffInvalid ==
    pc \in {"done", "stored"} =>
        (outcome.failed_rules # << >>) = (outcome.result \in {"INVALID", "invalid"})

\* the variables whose value the session holds
AssertedNames ==
    (ResolvedNames \cap DOMAIN reconstructed_policy.variables) \ FailedAssertions

\* C28: a rule reported fail or pass has a value asserted for every
\* variable its condition references.
C28_FiresOnAssertedValuesOnly ==
    (pc \in {"rules", "done", "stored"} /\ Recompiled) =>
        \A r \in RangeOf(rule_results) :
            r.result \in {"fail", "pass"} => TreeVars(RuleTree(r.rule_id)) \subseteq AssertedNames

\* C29: the counts of the rule summary are the numbers of applicable (fail
\* or pass), skipped and not applicable rules; none is negative and they add
\* up to the number of rules.
C29_SummaryCounts ==
    (Aggregated /\ outcome.explanation.summary # << >>) =>
        LET summary == outcome.explanation.summary
        IN  /\ summary[1] = CountOf({"fail", "pass"})
            /\ summary[2] = CountOf({"skipped"})
            /\ summary[3] = CountOf({"not_applicable"})
            /\ \A i \in 1..3 : summary[i] >= 0
            /\ summary[1] + summary[2] + summary[3] = Len(reconstructed_policy.rules)

\* the status of the API for a status of verify_scenario
StatusOf(result) ==
    CASE result \in {"VALID", "valid"} -> "valid"
      [] result \in {"INVALID", "invalid"} -> "invalid"
      [] result \in {"NEEDS_CLARIFICATION", "needs_clarification"} -> "needs_clarification"
      [] OTHER -> "error"

\* C30: the verify and batch-verify endpoints store and return the status
\* verify_scenario computed.
C30_StatusPreserved ==
    \A i \in 1..Len(verifications) :
        /\ verifications[i].verification_result = StatusOf(verifications[i].computed)
        /\ StatusOf(verifications[i].returned) = StatusOf(verifications[i].computed)


====
